---- MODULE Spec2Model ----
(***************************************************************************)
(* A model of the slang core: the arena-backed AST (src/ast/pool.rs), the  *)
(* closure compiler and its value-stack runtime (src/compiler/executor.rs).*)
(*                                                                         *)
(* Indices (AstIdx, NameIdx, FunIdx) are 0-based as in the source; the     *)
(* TLA+ sequences that hold the vectors are 1-based, so vec[i] of the      *)
(* source is seq[i + 1] here.  Option<T> is the sequence <<>> (None) or    *)
(* <<x>> (Some(x)).                                                        *)
(***************************************************************************)
EXTENDS Integers, Sequences, FiniteSets, TLC

VARIABLES
    nodes,          \* AstPool.nodes
    string_pool,    \* AstPool.string_pool (string_map is its inverse)
    function_defs,  \* AstPool.function_defs : NameIdx -> AstIdx
    roots,          \* front end: roots of the subtrees parsed and not yet consumed
    args_of,        \* front end: per node, the argument roots it was built from
    first_of,       \* front end: per node, the lowest index of its subtree
    ret,            \* the index the last builder operation returned
    last_op,        \* the last front-end request served
    program,        \* 0: any front-end requests; k > 0: source text Programs[k]
    pc,             \* number of requests of the source text served so far
    overflow_checks, \* the build panics on integer overflow (debug) or wraps (release)
    functions,      \* CompiledFunctions.functions
    compiled_defs,  \* CompiledFunctions.function_defs : NameIdx -> FunIdx
    compiles,       \* number of calls of compile so far
    last_result,    \* what the last call of execute returned
    crashed,        \* the process panicked or overflowed its native stack
    last_check,     \* what the last check_program of the interpreter returned
    last_children,  \* what the last children() asked of the arena came to
    last_deps       \* what the last find_dependencies asked of the arena returned

vars == <<nodes, string_pool, function_defs, roots, args_of, first_of, ret,
          last_op, program, pc, overflow_checks,
          functions, compiled_defs, compiles, last_result, crashed, last_check,
          last_children, last_deps>>

arena_vars == <<nodes, string_pool, function_defs, roots, args_of, first_of, ret, pc>>

table_vars == <<functions, compiled_defs, compiles>>

----------------------------------------------------------------------------
(* Bounds of the model *)

\* longest arena built from arbitrary front-end requests
MaxNodes == 4

----------------------------------------------------------------------------
(* Option and sequence helpers *)

None == <<>>

Some(x) == <<x>>

RECURSIVE Reverse(_)
Reverse(s) == IF s = <<>> THEN <<>> ELSE Append(Reverse(Tail(s)), Head(s))

\* the last k elements of s, and s without them
LastK(s, k) == SubSeq(s, Len(s) - k + 1, Len(s))

DropK(s, k) == SubSeq(s, 1, Len(s) - k)

----------------------------------------------------------------------------
(* The AST node kinds (src/ast/mod.rs) *)

Integer(v) == [kind |-> "Integer", value |-> v]

ParamRef(name, level, offset) ==
    [kind |-> "ParamRef", name |-> name, level |-> level, offset |-> offset]

PrimitiveFunc(f) == [kind |-> "PrimitiveFunc", func |-> f]

UserFunc(name_idx) == [kind |-> "UserFunc", name_idx |-> name_idx]

Lambda(param_count, body_idx) ==
    [kind |-> "Lambda", param_count |-> param_count, body_idx |-> body_idx]

Call(func_idx, child_count) ==
    [kind |-> "Call", func_idx |-> func_idx, child_count |-> child_count]

FunctionDef(name_idx, param_count, body_idx) ==
    [kind |-> "FunctionDef", name_idx |-> name_idx,
     param_count |-> param_count, body_idx |-> body_idx]

\* what an unchecked read outside the vector yields is not defined by the
\* source; the model marks it
OutOfArena == [kind |-> "OutOfArena"]

\* pool[idx]: nodes.get_unchecked(idx.0)
At(ns, idx) == IF idx >= 0 /\ idx < Len(ns) THEN ns[idx + 1] ELSE OutOfArena

----------------------------------------------------------------------------
(* AstPool::len and AstPool::children *)

RECURSIVE len(_, _), children(_, _), SumLen(_, _), CallChildren(_, _, _, _)

\* Lambda is a node kind of src/ast/mod.rs that pool.rs has no arm for; the
\* documented behaviour is a singleton child list and 1 + len(body)
lambda_children(n) == Some(<<n.body_idx>>)

lambda_len(ns, n) == 1 + len(ns, n.body_idx)

\* sum of len over a list of indices
SumLen(ns, idxs) ==
    IF idxs = <<>> THEN 0 ELSE len(ns, Head(idxs)) + SumLen(ns, Tail(idxs))

\* the loop of children(): `remaining` more children below current_idx,
\* pushed in the order found (last argument first)
CallChildren(ns, current_idx, remaining, acc) ==
    IF remaining = 0 THEN acc
    ELSE LET next_child == current_idx - 1
         IN  CallChildren(ns, current_idx - len(ns, next_child), remaining - 1,
                          Append(acc, next_child))

\* len that leaves the callee's subtree out of a Call
len_without_callee(ns, idx) ==
    LET n == At(ns, idx)
    IN  CASE n.kind = "Call" ->
               1 + (IF children(ns, idx) = None THEN 0
                    ELSE SumLen(ns, children(ns, idx)[1]))
          [] n.kind = "FunctionDef" ->
               1 + (IF children(ns, idx) = None THEN 0
                    ELSE SumLen(ns, children(ns, idx)[1]))
          [] n.kind = "Lambda" -> lambda_len(ns, n)
          [] OTHER -> 1

len(ns, idx) ==
    LET n == At(ns, idx)
    IN  CASE n.kind = "Call" ->
               1 + len(ns, n.func_idx)
                 + (IF children(ns, idx) = None THEN 0
                    ELSE SumLen(ns, children(ns, idx)[1]))
          [] n.kind = "FunctionDef" ->
               1 + (IF children(ns, idx) = None THEN 0
                    ELSE SumLen(ns, children(ns, idx)[1]))
          [] n.kind = "Lambda" -> lambda_len(ns, n)
          [] OTHER -> 1

\* children that forgets to reverse what the backward walk collected
children_in_walk_order(ns, idx) ==
    LET n == At(ns, idx)
    IN  CASE n.kind = "Call" ->
               LET next_len == len(ns, n.func_idx)
               IN  Some(CallChildren(ns, idx - next_len, n.child_count, <<>>))
          [] n.kind = "FunctionDef" -> Some(<<n.body_idx>>)
          [] n.kind = "Lambda" -> lambda_children(n)
          [] OTHER -> None

\* children that takes the callee for a single node
children_callee_one_node(ns, idx) ==
    LET n == At(ns, idx)
    IN  CASE n.kind = "Call" ->
               Some(Reverse(CallChildren(ns, idx - 1, n.child_count, <<>>)))
          [] n.kind = "FunctionDef" -> Some(<<n.body_idx>>)
          [] n.kind = "Lambda" -> lambda_children(n)
          [] OTHER -> None

children(ns, idx) ==
    LET n == At(ns, idx)
    IN  CASE n.kind = "Call" ->
               LET next_len == len(ns, n.func_idx)
               IN  Some(Reverse(CallChildren(ns, idx - next_len, n.child_count, <<>>)))
          [] n.kind = "FunctionDef" -> Some(<<n.body_idx>>)
          [] n.kind = "Lambda" -> lambda_children(n)
          [] OTHER -> None

\* a child_start that takes the callee for the node right below the Call
child_start_below_call(ns, idx) == idx - 2

\* the child_start field of Call (src/ast/mod.rs), which add_call of pool.rs
\* does not fill in: the index the walk of children() takes first, right
\* below the callee's subtree
child_start(ns, idx) == idx - len(ns, At(ns, idx).func_idx) - 1

----------------------------------------------------------------------------
(* len and children as the machine computes them: indices are usize, a     *)
(* subtraction below zero panics in a build with overflow checks and wraps *)
(* in one without, and pool[idx] reads without a bounds check.  A result   *)
(* is [st, val]: "ok" with the value, "panic", or "outside" with the index *)
(* read outside the vector, after which nothing is defined.                *)

UsizeModulus == 2^16

usize_sub(a, b) == [val |-> (a - b) % UsizeModulus, overflow |-> b > a]

U(st, val) == [st |-> st, val |-> val]

RECURSIVE len_usize(_, _, _), children_usize(_, _, _), walk_usize(_, _, _, _, _),
          sum_usize(_, _, _, _)

sum_usize(ns, idxs, checks, total) ==
    IF idxs = <<>> THEN U("ok", total)
    ELSE LET l == len_usize(ns, Head(idxs), checks)
         IN  IF l.st # "ok" THEN l
             ELSE sum_usize(ns, Tail(idxs), checks, total + l.val)

len_usize(ns, idx, checks) ==
    IF idx >= Len(ns) THEN U("outside", idx)
    ELSE LET n == ns[idx + 1]
         IN  CASE n.kind = "Call" ->
                    LET f == len_usize(ns, n.func_idx, checks)
                        c == children_usize(ns, idx, checks)
                    IN  IF f.st # "ok" THEN f
                        ELSE IF c.st # "ok" THEN c
                        ELSE sum_usize(ns, c.val[1], checks, 1 + f.val)
               [] n.kind \in {"FunctionDef", "Lambda"} ->
                    sum_usize(ns, <<n.body_idx>>, checks, 1)
               [] OTHER -> U("ok", 1)

\* the loop of children(): the children pushed so far are acc
walk_usize(ns, current_idx, remaining, acc, checks) ==
    IF remaining = 0 THEN U("ok", Some(Reverse(acc)))
    ELSE LET next_child == usize_sub(current_idx, 1)
             l == len_usize(ns, next_child.val, checks)
             next_idx == usize_sub(current_idx, l.val)
         IN  IF next_child.overflow /\ checks THEN U("panic", current_idx)
             ELSE IF l.st # "ok" THEN l
             ELSE IF next_idx.overflow /\ checks THEN U("panic", current_idx)
             ELSE walk_usize(ns, next_idx.val, remaining - 1,
                             Append(acc, next_child.val), checks)

children_usize(ns, idx, checks) ==
    IF idx >= Len(ns) THEN U("outside", idx)
    ELSE LET n == ns[idx + 1]
             next_len == len_usize(ns, n.func_idx, checks)
             current_idx == usize_sub(idx, next_len.val)
         IN  CASE n.kind = "Call" ->
                    IF next_len.st # "ok" THEN next_len
                    ELSE IF current_idx.overflow /\ checks THEN U("panic", idx)
                    ELSE walk_usize(ns, current_idx.val, n.child_count, <<>>, checks)
               [] n.kind = "FunctionDef" -> U("ok", Some(<<n.body_idx>>))
               [] n.kind = "Lambda" -> U("ok", lambda_children(n))
               [] OTHER -> U("ok", None)

----------------------------------------------------------------------------
(* The string interner *)

\* string_map.get(s): the handle of s, if interned
RECURSIVE Lookup(_, _, _)
Lookup(pool, s, i) ==
    IF i > Len(pool) THEN None
    ELSE IF pool[i] = s THEN Some(i - 1)
    ELSE Lookup(pool, s, i + 1)

string_map_get(pool, s) == Lookup(pool, s, 1)

\* an interner that never looks the string up
intern_string_always_push(pool, s) == [pool |-> Append(pool, s), idx |-> Len(pool)]

\* AstPool::intern_string: the pool afterwards and the handle returned
intern_string(pool, s) ==
    IF string_map_get(pool, s) # None
    THEN [pool |-> pool, idx |-> string_map_get(pool, s)[1]]
    ELSE [pool |-> Append(pool, s), idx |-> Len(pool)]

\* AstPool::get_string, for a handle the interner has returned
get_string(pool, idx) == pool[idx + 1]

\* AstPool::get_primitive_func
get_primitive_func(name) ==
    CASE name = "add" -> Some("Add")
      [] name = "multiply" -> Some("Multiply")
      [] OTHER -> None

----------------------------------------------------------------------------
(* The builder operations of AstPool.  A pool is the record of the three   *)
(* fields the model keeps; each operation yields the pool afterwards and   *)
(* the index it returns.                                                   *)

Pool(ns, sp, fd) == [nodes |-> ns, string_pool |-> sp, function_defs |-> fd]

\* HashMap::insert
MapInsert(m, k, v) == [x \in (DOMAIN m) \cup {k} |-> IF x = k THEN v ELSE m[x]]

add_integer(p, value) ==
    [pool |-> [p EXCEPT !.nodes = Append(p.nodes, Integer(value))],
     idx |-> Len(p.nodes)]

add_param_ref(p, name, level, offset) ==
    [pool |-> [p EXCEPT !.nodes = Append(p.nodes, ParamRef(name, level, offset))],
     idx |-> Len(p.nodes)]

add_primitive_func(p, func) ==
    [pool |-> [p EXCEPT !.nodes = Append(p.nodes, PrimitiveFunc(func))],
     idx |-> Len(p.nodes)]

add_user_func(p, name) ==
    LET i == intern_string(p.string_pool, name)
    IN  [pool |-> [p EXCEPT !.string_pool = i.pool,
                            !.nodes = Append(p.nodes, UserFunc(i.idx))],
         idx |-> Len(p.nodes)]

add_lambda(p, param_count, body_idx) ==
    [pool |-> [p EXCEPT !.nodes = Append(p.nodes, Lambda(param_count, body_idx))],
     idx |-> Len(p.nodes)]

\* add_call that turns the callee's node into the Call instead of appending
add_call_in_place(p, func_idx, child_count) ==
    [pool |-> [p EXCEPT !.nodes[func_idx + 1] = Call(func_idx, child_count)],
     idx |-> func_idx]

add_call(p, func_idx, child_count) ==
    [pool |-> [p EXCEPT !.nodes = Append(p.nodes, Call(func_idx, child_count))],
     idx |-> Len(p.nodes)]

add_add(p, child_count) ==
    LET id == add_primitive_func(p, "Add")
    IN  add_call(id.pool, id.idx, 2)

add_multiply(p, child_count) ==
    LET id == add_primitive_func(p, "Multiply")
    IN  add_call(id.pool, id.idx, 2)

add_function_def(p, name, param_count, body_idx) ==
    LET i == intern_string(p.string_pool, name)
    IN  [pool |-> [p EXCEPT
                     !.string_pool = i.pool,
                     !.nodes = Append(p.nodes, FunctionDef(i.idx, param_count, body_idx)),
                     !.function_defs = MapInsert(p.function_defs, i.idx, Len(p.nodes))],
         idx |-> Len(p.nodes)]

\* add_function_call that appends the Call before its callee
add_function_call_call_first(p, name, child_count) ==
    LET call == add_call(p, Len(p.nodes) + 1, child_count)
    IN  [pool |-> add_user_func(call.pool, name).pool, idx |-> call.idx]

add_function_call(p, name, child_count) ==
    IF get_primitive_func(name) # None
    THEN LET func_idx == add_primitive_func(p, get_primitive_func(name)[1])
         IN  add_call(func_idx.pool, func_idx.idx, child_count)
    ELSE LET func_idx == add_user_func(p, name)
         IN  add_call(func_idx.pool, func_idx.idx, child_count)

----------------------------------------------------------------------------
(* usize arithmetic.  A subtraction below zero panics in a build with      *)
(* overflow checks (debug) and wraps in one without (release); the build   *)
(* is fixed for a run (overflow_checks).  All modelled magnitudes are tiny *)
(* against the modulus, so a 16-bit word keeps a wrapped value as far out  *)
(* of range as the 64-bit word does.                                       *)


----------------------------------------------------------------------------
(* CompilationContext *)

\* CompilationContext::new; `panicked` records a checked-overflow panic
\* raised while the context was in use
NewContext == [stack_size |-> 0, frames |-> <<0>>, arg_count |-> <<0>>, panicked |-> FALSE]

alloc(ctx, n) == [ctx EXCEPT !.stack_size = ctx.stack_size + n]

\* self.stack_size.sub(n): the difference is computed and dropped
dealloc(ctx, n) ==
    IF overflow_checks /\ usize_sub(ctx.stack_size, n).overflow
    THEN [ctx EXCEPT !.panicked = TRUE]
    ELSE ctx

\* the subtrahend and the difference of calculate_param_offset
param_offset_base(ctx, level, offset) ==
    IF level = Len(ctx.frames)
    THEN ctx.frames[level] + offset
    ELSE ctx.frames[Len(ctx.frames)] + ctx.arg_count[Len(ctx.arg_count)] + offset

calculate_param_offset(ctx, level, offset) ==
    usize_sub(ctx.stack_size, param_offset_base(ctx, level, offset))

enter_scope(ctx, param_count) ==
    [ctx EXCEPT !.frames = Append(ctx.frames, ctx.stack_size),
                !.arg_count = Append(ctx.arg_count, param_count),
                !.stack_size = ctx.stack_size + param_count]

exit_scope(ctx) ==
    [ctx EXCEPT !.frames = DropK(ctx.frames, 1),
                !.stack_size = ctx.frames[Len(ctx.frames)]]

----------------------------------------------------------------------------
(* Capture analysis *)

RECURSIVE collect_captured_vars(_, _, _), CollectAll(_, _, _), SortPairs(_),
          SortPairs_descending(_)

CollectAll(idxs, ns, lambda_level) ==
    IF idxs = <<>> THEN {}
    ELSE collect_captured_vars(Head(idxs), ns, lambda_level)
           \cup CollectAll(Tail(idxs), ns, lambda_level)

\* the set of (level, offset) pairs inserted into `captured`
collect_captured_vars(node, ns, lambda_level) ==
    LET n == At(ns, node)
    IN  CASE n.kind = "ParamRef" ->
               IF n.level < lambda_level /\ n.level > 0
               THEN {<<n.level, n.offset>>} ELSE {}
          [] n.kind = "Lambda" ->
               collect_captured_vars(n.body_idx, ns, lambda_level + 1)
          [] OTHER ->
               IF children(ns, node) = None THEN {}
               ELSE CollectAll(children(ns, node)[1], ns, lambda_level)

PairLess(a, b) == a[1] < b[1] \/ (a[1] = b[1] /\ a[2] < b[2])

\* a sort that puts the greatest pair first
SortPairs_descending(S) ==
    IF S = {} THEN <<>>
    ELSE LET m == CHOOSE x \in S : \A y \in S \ {x} : PairLess(y, x)
         IN  <<m>> \o SortPairs_descending(S \ {m})

\* sort_by level, then offset
SortPairs(S) ==
    IF S = {} THEN <<>>
    ELSE LET m == CHOOSE x \in S : \A y \in S \ {x} : PairLess(x, y)
         IN  <<m>> \o SortPairs(S \ {m})

find_captured_vars(node, ns, lambda_level) ==
    SortPairs(collect_captured_vars(node, ns, lambda_level))

----------------------------------------------------------------------------
(* The lowering compiler.  compile_expr yields [st, code, ctx]: st is      *)
(* "some" (Some(closure), described by `code`), "none" (None) or "panic"   *)
(* (a checked overflow while lowering).  A closure is described by the     *)
(* data it captured when it was built.                                     *)

NoCode == [op |-> "none"]

Compiled(code, ctx) ==
    [st |-> IF ctx.panicked THEN "panic" ELSE "some", code |-> code, ctx |-> ctx]

NotCompiled(st, ctx) == [st |-> st, code |-> NoCode, ctx |-> ctx]

compile_integer(ctx, i) == Compiled([op |-> "integer", i |-> i], alloc(ctx, 1))

compile_param(ctx, offset, level) ==
    LET param_index == calculate_param_offset(ctx, level, offset)
    IN  IF overflow_checks /\ param_index.overflow
        THEN NotCompiled("panic", ctx)
        ELSE Compiled([op |-> "param", param_index |-> param_index.val,
                       level |-> level, offset |-> offset,
                       frames |-> ctx.frames, stack_size |-> ctx.stack_size],
                      alloc(ctx, 1))

compile_primitive_func(ctx, primitive_func) ==
    Compiled([op |-> "primitive", func |-> primitive_func], alloc(ctx, 1))

\* func_to_call is a clone of the table's CompiledFunction: it shares the
\* slot's body cell and copies its param_count
\* compile_user_func capturing the slot's closure as it is while lowering
compile_user_func_by_value(cf, ctx, name_idx) ==
    IF name_idx \in DOMAIN cf.function_defs
    THEN LET lambda_idx == cf.function_defs[name_idx]
         IN  Compiled([op |-> "user_func",
                       fun |-> [k |-> "closure", captures |-> <<>>,
                                body_func |-> cf.functions[lambda_idx + 1].body,
                                param_count |-> cf.functions[lambda_idx + 1].param_count]],
                      alloc(ctx, 1))
    ELSE NotCompiled("none", ctx)

\* the closure pushes a clone of the table entry, which shares the entry's
\* Rc<RefCell<..>> body: a reference to the slot
compile_user_func(cf, ctx, name_idx) ==
    IF name_idx \in DOMAIN cf.function_defs
    THEN LET lambda_idx == cf.function_defs[name_idx]
         IN  Compiled([op |-> "user_func",
                       fun |-> [k |-> "slot", slot |-> lambda_idx,
                                param_count |-> cf.functions[lambda_idx + 1].param_count]],
                      alloc(ctx, 1))
    ELSE NotCompiled("none", ctx)

RECURSIVE compile_expr(_, _, _, _), CompileChildren(_, _, _, _, _), MapOffsets(_, _)

\* the captured (level, offset) pairs turned into baked offsets
MapOffsets(ctx, pairs) ==
    IF pairs = <<>> THEN [vals |-> <<>>, overflow |-> FALSE]
    ELSE LET id == calculate_param_offset(ctx, Head(pairs)[1], Head(pairs)[2])
             rest == MapOffsets(ctx, Tail(pairs))
         IN  [vals |-> <<id.val>> \o rest.vals, overflow |-> id.overflow \/ rest.overflow]

\* the loop over the children of compile_call: [st, codes, ctx]
CompileChildren(cf, idxs, ns, ctx, acc) ==
    IF idxs = <<>> THEN [st |-> "some", codes |-> acc, ctx |-> ctx]
    ELSE LET c == compile_expr(cf, Head(idxs), ns, ctx)
         IN  IF c.st # "some" THEN [st |-> c.st, codes |-> acc, ctx |-> c.ctx]
             ELSE CompileChildren(cf, Tail(idxs), ns, c.ctx, Append(acc, c.code))

compile_call(cf, node, ns, ctx, func_idx) ==
    IF children(ns, node) = None THEN NotCompiled("none", ctx)
    ELSE LET kids == children(ns, node)[1]
             func == compile_expr(cf, func_idx, ns, ctx)
         IN  IF func.st # "some" THEN NotCompiled(func.st, func.ctx)
             ELSE LET cs == CompileChildren(cf, kids, ns, func.ctx, <<>>)
                  IN  IF cs.st # "some" THEN NotCompiled(cs.st, cs.ctx)
                      ELSE Compiled([op |-> "call", func |-> func.code,
                                     child_lambdas |-> cs.codes, node |-> node,
                                     stack_entry |-> ctx.stack_size,
                                     stack_lowered |-> cs.ctx.stack_size,
                                     stack_exit |-> dealloc(cs.ctx, Len(kids) + 1).stack_size],
                                    dealloc(cs.ctx, Len(kids) + 1))

compile_lambda(cf, node, ns, context, param_count, body_idx) ==
    LET ctx1 == enter_scope(context, param_count)
        curr_lev == Len(ctx1.frames)
        found == find_captured_vars(node, ns, curr_lev)
        captured_vars == MapOffsets(ctx1, found)
    IN  IF overflow_checks /\ captured_vars.overflow
        THEN NotCompiled("panic", ctx1)
        ELSE LET body_func == compile_expr(cf, body_idx, ns, ctx1)
             IN  IF body_func.st # "some" THEN NotCompiled(body_func.st, body_func.ctx)
                 ELSE Compiled([op |-> "lambda", found |-> found,
                                captured_vars |-> captured_vars.vals,
                                body_func |-> body_func.code,
                                param_count |-> param_count, node |-> node,
                                curr_lev |-> curr_lev,
                                ctx_entry |-> context,
                                ctx_exit |-> exit_scope(body_func.ctx)],
                               alloc(exit_scope(body_func.ctx), 1))

compile_fun_def(cf, ns, context, body_idx, param_count) ==
    LET body_lambda == compile_expr(cf, body_idx, ns, enter_scope(context, param_count))
    IN  IF body_lambda.st # "some" THEN NotCompiled(body_lambda.st, body_lambda.ctx)
        ELSE Compiled([op |-> "fun_def", body_lambda |-> body_lambda.code,
                       param_count |-> param_count],
                      exit_scope(body_lambda.ctx))

compile_expr(cf, node, ns, context) ==
    LET expr == At(ns, node)
    IN  CASE expr.kind = "Integer" -> compile_integer(context, expr.value)
          [] expr.kind = "ParamRef" -> compile_param(context, expr.offset, expr.level)
          [] expr.kind = "PrimitiveFunc" -> compile_primitive_func(context, expr.func)
          [] expr.kind = "UserFunc" -> compile_user_func(cf, context, expr.name_idx)
          [] expr.kind = "Lambda" ->
               compile_lambda(cf, node, ns, context, expr.param_count, expr.body_idx)
          [] expr.kind = "Call" -> compile_call(cf, node, ns, context, expr.func_idx)
          [] expr.kind = "FunctionDef" ->
               compile_fun_def(cf, ns, context, expr.body_idx, expr.param_count)
          [] OTHER -> NotCompiled("none", context)

----------------------------------------------------------------------------
(* The runtime: values, the value stack `mem` and the closures' bodies.    *)
(* Running a closure yields [st, err, mem, log]: st is "ok" (Ok(())),      *)
(* "err" (Err(ErrTrace), `err` names the message), "panic" (the process    *)
(* panicked) or "stack_overflow" (the native recursion ran past            *)
(* MaxCallDepth); log is the set of Call-closure executions it contains.   *)

\* deepest nesting of function invocations followed
MaxCallDepth == 6

\* number of times compile is called on one table
MaxCompiles == 1

\* the longest arena and the largest argument count the callers of the raw
\* builder operations try
MaxArena == 4
MaxChildCount == 2

VInt(i) == [t |-> "Int", v |-> i]

VFun(f) == [t |-> "Fun", v |-> f]

\* the body of a function-table slot before pass 2 fills it
Placeholder == [op |-> "placeholder"]

Outcome(st, err, mem, log) == [st |-> st, err |-> err, mem |-> mem, log |-> log]

Ok(mem, log) == Outcome("ok", "", mem, log)

\* one execution of a Call closure, for the record
\* (at_invoke: the stack handed to fun.call, <<>> when the callee is not invoked)
CallEvent(node, entry, nargs, callee, invoked, at_invoke, out) ==
    [node |-> node, entry |-> entry, nargs |-> nargs, callee |-> callee,
     invoked |-> invoked, at_invoke |-> at_invoke,
     st |-> out.st, err |-> out.err, exit |-> out.mem]

NoFun == [k |-> "none", param_count |-> 0]

\* lambda closure: captured_vars.map(|i| mem[len - i]); <<"panic">> when an
\* index computation overflows under checks or the index is out of bounds
RECURSIVE Snapshot(_, _, _)
Snapshot(captured_vars, mem, len0) ==
    IF captured_vars = <<>> THEN <<"ok", <<>>>>
    ELSE LET d == usize_sub(len0, Head(captured_vars))
             rest == Snapshot(Tail(captured_vars), mem, len0)
         IN  IF (overflow_checks /\ d.overflow) \/ d.val >= Len(mem) \/ rest[1] = "panic"
             THEN <<"panic", <<>>>>
             ELSE <<"ok", <<mem[d.val + 1]>> \o rest[2]>>

\* the closure built by compile_param
run_param(code, mem) ==
    IF overflow_checks /\ Len(mem) = 0 THEN Outcome("panic", "param_underflow", mem, {})
    ELSE IF code.param_index >= Len(mem) THEN Outcome("err", "param_oob", mem, {})
    ELSE Ok(Append(mem, mem[Len(mem) - code.param_index]), {})

\* the closure built by compile_lambda: it pushes a new function value
run_lambda(code, mem) ==
    IF overflow_checks /\ Len(mem) = 0 THEN Outcome("panic", "lambda_underflow", mem, {})
    ELSE LET len0 == (Len(mem) - 1) % UsizeModulus
             captures == Snapshot(code.captured_vars, mem, len0)
         IN  IF captures[1] = "panic" THEN Outcome("panic", "index", mem, {})
             ELSE Ok(Append(mem, VFun([k |-> "closure", captures |-> captures[2],
                                       body_func |-> code.body_func,
                                       param_count |-> code.param_count])), {})

\* the function value pushed by the closure of compile_primitive_func
run_primitive(fun, mem) ==
    IF Len(mem) < 2 THEN Outcome("panic", "unwrap", mem, {})
    ELSE LET b == mem[Len(mem)]
             a == mem[Len(mem) - 1]
             rest == DropK(mem, 2)
         IN  IF a.t = "Int" /\ b.t = "Int"
             THEN Ok(Append(rest, VInt(IF fun.func = "Add" THEN a.v + b.v ELSE a.v * b.v)), {})
             ELSE Outcome("err", "type", rest, {})

\* pop the result, truncate to start_len, push the result
Finish(out, start_len) ==
    IF out.st # "ok" THEN out
    ELSE IF Len(out.mem) = 0 THEN Outcome("err", "underflow", out.mem, out.log)
    ELSE LET popped_result == out.mem[Len(out.mem)]
             popped == DropK(out.mem, 1)
             cut == IF Len(popped) > start_len THEN SubSeq(popped, 1, start_len) ELSE popped
         IN  Ok(Append(cut, popped_result), out.log)

RECURSIVE Run(_, _, _, _), RunAll(_, _, _, _), Invoke(_, _, _, _), run_call(_, _, _, _)

\* the closures in `codes`, each called in turn until one fails
RunAll(fns, codes, mem, depth) ==
    IF codes = <<>> THEN Ok(mem, {})
    ELSE LET first == Run(fns, Head(codes), mem, depth)
         IN  IF first.st # "ok" THEN first
             ELSE LET rest == RunAll(fns, Tail(codes), first.mem, depth)
                  IN  [rest EXCEPT !.log = first.log \cup rest.log]

\* fun.call(mem) for the function value `fun`
Invoke(fns, fun, mem, depth) ==
    IF depth = 0 THEN Outcome("stack_overflow", "", mem, {})
    ELSE CASE fun.k = "slot" ->
                LET body == fns[fun.slot + 1].body
                IN  IF body = Placeholder THEN Outcome("panic", "placeholder", mem, {})
                    ELSE Run(fns, body, mem, depth - 1)
           [] fun.k = "prim" -> run_primitive(fun, mem)
           [] fun.k = "closure" ->
                Finish(Run(fns, fun.body_func, mem \o fun.captures, depth - 1), Len(mem))

\* compile_call's closure evaluating the arguments first to last
run_call_first_to_last(fns, code, mem, depth) ==
    LET start_len == Len(mem)
        nargs == Len(code.child_lambdas)
        args == RunAll(fns, code.child_lambdas, mem, depth)
        EvAt(callee, invoked, at_invoke, out) ==
            [out EXCEPT !.log = out.log \cup
                 {CallEvent(code.node, mem, nargs, callee, invoked, at_invoke, out)}]
        Ev(callee, invoked, out) == EvAt(callee, invoked, <<>>, out)
    IN  IF args.st # "ok" THEN Ev(NoFun, FALSE, args)
        ELSE LET func == Run(fns, code.func, args.mem, depth)
                 log1 == args.log \cup func.log
             IN  IF func.st # "ok" THEN Ev(NoFun, FALSE, [func EXCEPT !.log = log1])
                 ELSE IF Len(func.mem) = 0
                 THEN Ev(NoFun, FALSE, Outcome("err", "underflow", func.mem, log1))
                 ELSE LET func_val == func.mem[Len(func.mem)]
                          mem1 == DropK(func.mem, 1)
                      IN  IF func_val.t # "Fun"
                          THEN Ev(NoFun, FALSE, Outcome("err", "not_function", mem1, log1))
                          ELSE IF Len(mem1) < func_val.v.param_count
                          THEN Ev(func_val.v, FALSE, Outcome("err", "arity", mem1, log1))
                          ELSE LET called == Invoke(fns, func_val.v, mem1, depth)
                                   out == Finish([called EXCEPT !.log = log1 \cup called.log],
                                                 start_len)
                               IN  EvAt(func_val.v, TRUE, mem1, out)

\* the closure built by compile_call
run_call(fns, code, mem, depth) ==
    LET start_len == Len(mem)
        nargs == Len(code.child_lambdas)
        args == RunAll(fns, Reverse(code.child_lambdas), mem, depth)
        EvAt(callee, invoked, at_invoke, out) ==
            [out EXCEPT !.log = out.log \cup
                 {CallEvent(code.node, mem, nargs, callee, invoked, at_invoke, out)}]
        Ev(callee, invoked, out) == EvAt(callee, invoked, <<>>, out)
    IN  IF args.st # "ok" THEN Ev(NoFun, FALSE, args)
        ELSE LET func == Run(fns, code.func, args.mem, depth)
                 log1 == args.log \cup func.log
             IN  IF func.st # "ok" THEN Ev(NoFun, FALSE, [func EXCEPT !.log = log1])
                 ELSE IF Len(func.mem) = 0
                 THEN Ev(NoFun, FALSE, Outcome("err", "underflow", func.mem, log1))
                 ELSE LET func_val == func.mem[Len(func.mem)]
                          mem1 == DropK(func.mem, 1)
                      IN  IF func_val.t # "Fun"
                          THEN Ev(NoFun, FALSE, Outcome("err", "not_function", mem1, log1))
                          ELSE IF Len(mem1) < func_val.v.param_count
                          THEN Ev(func_val.v, FALSE, Outcome("err", "arity", mem1, log1))
                          ELSE LET called == Invoke(fns, func_val.v, mem1, depth)
                                   out == Finish([called EXCEPT !.log = log1 \cup called.log],
                                                 start_len)
                               IN  EvAt(func_val.v, TRUE, mem1, out)

Run(fns, code, mem, depth) ==
    CASE code.op = "integer" -> Ok(Append(mem, VInt(code.i)), {})
      [] code.op = "param" -> run_param(code, mem)
      [] code.op = "primitive" ->
           Ok(Append(mem, VFun([k |-> "prim", func |-> code.func, param_count |-> 2])), {})
      [] code.op = "user_func" -> Ok(Append(mem, VFun(code.fun)), {})
      [] code.op = "placeholder" -> Outcome("panic", "placeholder", mem, {})
      [] code.op = "lambda" -> run_lambda(code, mem)
      [] code.op = "fun_def" -> Run(fns, code.body_lambda, mem, depth)
      [] code.op = "call" -> run_call(fns, code, mem, depth)

----------------------------------------------------------------------------
(* CompiledFunctions: compile and execute *)

CF(fns, fd) == [functions |-> fns, function_defs |-> fd]

\* all orders in which a HashMap may yield the keys S
RECURSIVE Orders(_)
Orders(S) ==
    IF S = {} THEN {<<>>}
    ELSE UNION {{<<x>> \o o : o \in Orders(S \ {x})} : x \in S}

\* pass 1 of compile: a placeholder slot per function definition
RECURSIVE Pass1(_, _, _, _)
Pass1(cf, ns, fdefs, order) ==
    IF order = <<>> THEN cf
    ELSE LET name_idx == Head(order)
             def == At(ns, fdefs[name_idx])
             lambda_idx == Len(cf.functions)
             param_count == IF def.kind = "FunctionDef" THEN def.param_count ELSE 0
         IN  Pass1(CF(Append(cf.functions, [param_count |-> param_count, body |-> Placeholder]),
                      MapInsert(cf.function_defs, name_idx, lambda_idx)),
                   ns, fdefs, Tail(order))

\* pass 2 of compile: each body lowered and stored in its slot; [cf, panicked]
RECURSIVE Pass2(_, _, _, _)
Pass2(cf, ns, fdefs, order) ==
    IF order = <<>> THEN [cf |-> cf, panicked |-> FALSE]
    ELSE LET name_idx == Head(order)
             lambda_idx == cf.function_defs[name_idx]
             def == At(ns, fdefs[name_idx])
         IN  IF def.kind # "FunctionDef" THEN Pass2(cf, ns, fdefs, Tail(order))
             ELSE LET compiled_body == compile_expr(cf, def.body_idx, ns, NewContext)
                  IN  CASE compiled_body.st = "panic" -> [cf |-> cf, panicked |-> TRUE]
                        [] compiled_body.st = "none" -> Pass2(cf, ns, fdefs, Tail(order))
                        [] OTHER ->
                             Pass2([cf EXCEPT !.functions[lambda_idx + 1].body = compiled_body.code],
                                   ns, fdefs, Tail(order))

compile(cf, p, order) == Pass2(Pass1(cf, p.nodes, p.function_defs, order),
                               p.nodes, p.function_defs, order)

\* execute: [outcome, err, value, log]; outcome is "some" (Some(value)),
\* "none", "panic" or "stack_overflow"; err names the error or the panic
execute(cf, expr_idx, p) ==
    LET compiled_expr == compile_expr(cf, expr_idx, p.nodes, NewContext)
        Res(outcome, err, value, log) ==
            [outcome |-> outcome, err |-> err, value |-> value, log |-> log]
    IN  CASE compiled_expr.st = "panic" -> Res("panic", "overflow", VInt(0), {})
          [] compiled_expr.st = "none" -> Res("none", "not_compiled", VInt(0), {})
          [] OTHER ->
               LET r == Run(cf.functions, compiled_expr.code, <<>>, MaxCallDepth)
               IN  CASE r.st \in {"panic", "stack_overflow"} ->
                          Res(r.st, r.err, VInt(0), r.log)
                     [] r.st = "err" -> Res("none", r.err, VInt(0), r.log)
                     [] Len(r.mem) = 0 -> Res("none", "empty", VInt(0), r.log)
                     [] OTHER -> Res("some", "", r.mem[Len(r.mem)], r.log)

----------------------------------------------------------------------------
(* The checker (src/checker/type_check.rs).  A check yields "ok" or the    *)
(* name of the CheckerError it fails with.                                 *)

\* TypeChecker::new: the parameter count of every defined function
function_param_counts(p) ==
    [name_idx \in {n \in DOMAIN p.function_defs :
                     At(p.nodes, p.function_defs[n]).kind = "FunctionDef"}
        |-> At(p.nodes, p.function_defs[name_idx]).param_count]

RECURSIVE check_expression(_, _, _), CheckAll(_, _, _)

\* a check of the arguments that looks at the first argument only
CheckAll_first_only(ns, counts, idxs) ==
    IF idxs = <<>> THEN "ok" ELSE check_expression(ns, counts, Head(idxs))

\* the arguments checked in order, stopping at the first error
CheckAll(ns, counts, idxs) ==
    IF idxs = <<>> THEN "ok"
    ELSE LET first == check_expression(ns, counts, Head(idxs))
         IN  IF first # "ok" THEN first ELSE CheckAll(ns, counts, Tail(idxs))

\* type_check.rs has no arm for Lambda; a lambda is checked through its body
check_lambda(ns, counts, n) == check_expression(ns, counts, n.body_idx)

\* what the match on the callee of a Call decides
check_callee(ns, counts, n) ==
    LET callee == At(ns, n.func_idx)
    IN  CASE callee.kind = "PrimitiveFunc" ->
               IF n.child_count # 2 THEN "InvalidPrimitiveArgCount" ELSE "ok"
          [] callee.kind = "UserFunc" ->
               IF callee.name_idx \in DOMAIN counts
               THEN IF counts[callee.name_idx] # n.child_count
                    THEN "ArgumentCountMismatch" ELSE "ok"
               ELSE "UndefinedFunction"
          [] OTHER -> "InternalError"

check_expression(ns, counts, expr_idx) ==
    LET n == At(ns, expr_idx)
    IN  CASE n.kind \in {"Integer", "ParamRef", "PrimitiveFunc"} -> "ok"
          [] n.kind = "UserFunc" ->
               IF n.name_idx \in DOMAIN counts THEN "ok" ELSE "UndefinedFunction"
          [] n.kind = "Call" ->
               LET func == check_expression(ns, counts, n.func_idx)
               IN  IF func # "ok" THEN func
                   ELSE IF check_callee(ns, counts, n) # "ok" THEN check_callee(ns, counts, n)
                   ELSE IF children(ns, expr_idx) = None THEN "ok"
                   ELSE CheckAll(ns, counts, children(ns, expr_idx)[1])
          [] n.kind = "FunctionDef" -> check_expression(ns, counts, n.body_idx)
          [] n.kind = "Lambda" -> check_lambda(ns, counts, n)

check_function_def(ns, counts, ast_idx) ==
    IF At(ns, ast_idx).kind = "FunctionDef"
    THEN check_expression(ns, counts, At(ns, ast_idx).body_idx)
    ELSE "InternalError"

\* the definitions checked in the order the HashMap yields them
RECURSIVE check_program(_, _)
check_program(p, order) ==
    IF order = <<>> THEN "ok"
    ELSE LET first == check_function_def(p.nodes, function_param_counts(p),
                                         p.function_defs[Head(order)])
         IN  IF first # "ok" THEN first ELSE check_program(p, Tail(order))

----------------------------------------------------------------------------
(* The parser's Scope (src/parser/parser.rs): a scope is the list of the   *)
(* parameter lists of the scopes around it, outermost first; its level is  *)
(* the length of that list.                                                *)

Scope_new == <<>>

create_child(scope) == Append(scope, <<>>)

\* the parameter is added to the innermost list, at the position `offset`
\* its declaration has
add_param(scope, name) ==
    [scope EXCEPT ![Len(scope)] = Append(scope[Len(scope)], name)]

\* variables.get(name) of one scope: a later insert of a name replaces the
\* earlier one
PositionIn(params, name) ==
    IF \E i \in DOMAIN params : params[i] = name
    THEN Some((CHOOSE i \in DOMAIN params :
                  params[i] = name /\ \A j \in DOMAIN params : params[j] = name => j <= i) - 1)
    ELSE None

\* Scope::lookup: [offset, level] of the innermost scope that declares name
RECURSIVE lookup(_, _)
lookup(scope, name) ==
    IF scope = <<>> THEN None
    ELSE IF PositionIn(scope[Len(scope)], name) # None
    THEN Some([offset |-> PositionIn(scope[Len(scope)], name)[1], level |-> Len(scope)])
    ELSE lookup(DropK(scope, 1), name)

----------------------------------------------------------------------------
(* The front end.  parse_program walks the source text and issues builder  *)
(* requests; a request is [op, s, a, b].  Programs lists, per source text, *)
(* the requests the parser issues for it, in order.                        *)

Req(op, s, a, b) == [op |-> op, s |-> s, a |-> a, b |-> b]

RIntern(s) == Req("intern_string", s, 0, 0)

RInt(v) == Req("add_integer", "", v, 0)

RParam(s, level, offset) == Req("add_param_ref", s, level, offset)

RPrim(f) == Req("add_primitive_func", f, 0, 0)

RUser(s) == Req("add_user_func", s, 0, 0)

RLambda(n) == Req("add_lambda", "", n, 0)

RCall(n) == Req("add_call", "", n, 0)

RAdd == Req("add_add", "", 2, 0)

RMul == Req("add_multiply", "", 2, 0)

RFnCall(s, n) == Req("add_function_call", s, n, 0)

RFnDef(s, n) == Req("add_function_def", s, n, 0)

\* fn muladd(x, y, z) { x * y + z }
SrcMuladd ==
    <<RIntern("muladd"), RIntern("x"), RIntern("y"), RIntern("z"),
      RParam("x", 1, 0), RParam("y", 1, 1), RMul, RParam("z", 1, 2), RAdd,
      RFnDef("muladd", 3)>>

\* fn test1() { muladd(1, 2, 3) }
SrcTestSimple ==
    <<RIntern("test1"), RInt(1), RInt(2), RInt(3), RFnCall("muladd", 3),
      RFnDef("test1", 0)>>

\* fn test1() { muladd(1, 2, muladd(3, 4, 5)) }
SrcTestNestedLast ==
    <<RIntern("test1"), RInt(1), RInt(2),
      RInt(3), RInt(4), RInt(5), RFnCall("muladd", 3),
      RFnCall("muladd", 3), RFnDef("test1", 0)>>

\* fn test_nested() { muladd(muladd(1, 2, 3), 4, 5) }
SrcTestNestedFirst ==
    <<RIntern("test_nested"),
      RInt(1), RInt(2), RInt(3), RFnCall("muladd", 3),
      RInt(4), RInt(5), RFnCall("muladd", 3), RFnDef("test_nested", 0)>>

\* fn test_nested_middle() { muladd(1, muladd(2, 3, 4), 5) }
SrcTestNestedMiddle ==
    <<RIntern("test_nested_middle"), RInt(1),
      RInt(2), RInt(3), RInt(4), RFnCall("muladd", 3),
      RInt(5), RFnCall("muladd", 3), RFnDef("test_nested_middle", 0)>>

\* fn curry(a, b) { lambda c d e { lambda f { a + b + c + d + e + f } } }
SrcCurry ==
    <<RIntern("curry"), RIntern("a"), RIntern("b"),
      RIntern("c"), RIntern("d"), RIntern("e"), RIntern("f"),
      RParam("a", 1, 0), RParam("b", 1, 1), RAdd,
      RParam("c", 2, 0), RAdd, RParam("d", 2, 1), RAdd,
      RParam("e", 2, 2), RAdd, RParam("f", 3, 0), RAdd,
      RLambda(1), RLambda(3), RFnDef("curry", 2)>>

\* fn test_curried() { curry(1, 2)(3, 4, 5)(6) }: an application whose callee
\* is itself an application; the arguments of the outer application come
\* first, its callee subtree last
SrcTestCurried ==
    <<RIntern("test_curried"), RInt(6), RInt(3), RInt(4), RInt(5),
      RInt(1), RInt(2), RUser("curry"), RCall(2), RCall(3), RCall(1),
      RFnDef("test_curried", 0)>>

\* fn test_all() { muladd(muladd(1, 2, 3), muladd(1, 2, 3), muladd(1, 2, 3)) }
SrcTestNestedAll ==
    <<RIntern("test_all"),
      RInt(1), RInt(2), RInt(3), RFnCall("muladd", 3),
      RInt(1), RInt(2), RInt(3), RFnCall("muladd", 3),
      RInt(1), RInt(2), RInt(3), RFnCall("muladd", 3),
      RFnCall("muladd", 3), RFnDef("test_all", 0)>>

\* fn pair(x, y) { add() }  fn t() { pair(1, 2) }
SrcAddNoArgs ==
    <<RIntern("pair"), RIntern("x"), RIntern("y"), RFnCall("add", 0), RFnDef("pair", 2),
      RIntern("t"), RInt(1), RInt(2), RFnCall("pair", 2), RFnDef("t", 0)>>

\* fn id1(x) { x }  fn t() { id1(1, 2) }
SrcTooMany ==
    <<RIntern("id1"), RIntern("x"), RParam("x", 1, 0), RFnDef("id1", 1),
      RIntern("t"), RInt(1), RInt(2), RFnCall("id1", 2), RFnDef("t", 0)>>

\* fn fst(x, y) { x }  fn h(a, b) { fst(7) }  fn t() { h(1, 2) }
SrcTooFew ==
    <<RIntern("fst"), RIntern("x"), RIntern("y"), RParam("x", 1, 0), RFnDef("fst", 2),
      RIntern("h"), RIntern("a"), RIntern("b"), RInt(7), RFnCall("fst", 1), RFnDef("h", 2),
      RIntern("t"), RInt(1), RInt(2), RFnCall("h", 2), RFnDef("t", 0)>>

\* fn fst(x, y) { x }  fn t() { fst(1) }
SrcTooFewAtBottom ==
    <<RIntern("fst"), RIntern("x"), RIntern("y"), RParam("x", 1, 0), RFnDef("fst", 2),
      RIntern("t"), RInt(1), RFnCall("fst", 1), RFnDef("t", 0)>>

\* fn f() { g() }  fn t() { f() }, g defined nowhere
SrcUndefined ==
    <<RIntern("f"), RFnCall("g", 0), RFnDef("f", 0),
      RIntern("t"), RFnCall("f", 0), RFnDef("t", 0)>>

\* fn a() { b() }  fn b() { 7 }
SrcForward ==
    <<RIntern("a"), RFnCall("b", 0), RFnDef("a", 0),
      RIntern("b"), RInt(7), RFnDef("b", 0)>>

\* fn p() { q() }  fn q() { p() }
SrcMutual ==
    <<RIntern("p"), RFnCall("q", 0), RFnDef("p", 0),
      RIntern("q"), RFnCall("p", 0), RFnDef("q", 0)>>

\* fn bad() { add(add, 1) }  fn t() { add(1, bad()) }
SrcTypeMismatch ==
    <<RIntern("bad"), RPrim("Add"), RInt(1), RFnCall("add", 2), RFnDef("bad", 0),
      RIntern("t"), RInt(1), RFnCall("bad", 0), RFnCall("add", 2), RFnDef("t", 0)>>

\* fn inc(x) { add(x, 1) }  and the expression inc(2) given to the interpreter
SrcEvalOk ==
    <<RIntern("inc"), RIntern("x"), RParam("x", 1, 0), RInt(1), RFnCall("add", 2),
      RFnDef("inc", 1),
      RIntern("__eval__"), RInt(2), RFnCall("inc", 1), RFnDef("__eval__", 0)>>

\* fn id1(x) { x }  and the expression add(1, id1(1, 2)) given to the interpreter
SrcEvalMismatch ==
    <<RIntern("id1"), RIntern("x"), RParam("x", 1, 0), RFnDef("id1", 1),
      RIntern("__eval__"), RInt(1), RInt(1), RInt(2), RFnCall("id1", 2),
      RFnCall("add", 2), RFnDef("__eval__", 0)>>

\* fn t() { add(1, multiply(2)) }
SrcPrimitiveArity ==
    <<RIntern("t"), RInt(1), RInt(2), RFnCall("multiply", 1), RFnCall("add", 2),
      RFnDef("t", 0)>>

\* fn id1(x) { x }  fn id2(x) { x }
SrcSameParam ==
    <<RIntern("id1"), RIntern("x"), RParam("x", 1, 0), RFnDef("id1", 1),
      RIntern("id2"), RIntern("x"), RParam("x", 1, 0), RFnDef("id2", 1)>>

\* fn twice(a, b) { |c| b + a + b }
SrcDupCapture ==
    <<RIntern("twice"), RIntern("a"), RIntern("b"), RIntern("c"),
      RParam("b", 1, 1), RParam("a", 1, 0), RAdd, RParam("b", 1, 1), RAdd,
      RLambda(1), RFnDef("twice", 2)>>

\* fn snd(x, y) { y }  fn t() { snd(1, 2) }
SrcSecondParam ==
    <<RIntern("snd"), RIntern("x"), RIntern("y"), RParam("y", 1, 1), RFnDef("snd", 2),
      RIntern("t"), RInt(1), RInt(2), RFnCall("snd", 2), RFnDef("t", 0)>>

\* fn ap(f, x) { f }  fn k(a) { ap(|c| a, 7) }  fn t() { k(5) }
SrcCaptureUnderTemp ==
    <<RIntern("ap"), RIntern("f"), RIntern("x"), RParam("f", 1, 0), RFnDef("ap", 2),
      RIntern("k"), RIntern("a"), RIntern("c"), RParam("a", 1, 0), RLambda(1), RInt(7),
      RFnCall("ap", 2), RFnDef("k", 1),
      RIntern("t"), RInt(5), RFnCall("k", 1), RFnDef("t", 0)>>

\* fn two(a, b) { a }  fn bad(x, y) { two(add(), 9) }  fn t() { bad(1, 2) }
SrcArgEatsStack ==
    <<RIntern("two"), RIntern("a"), RIntern("b"), RParam("a", 1, 0), RFnDef("two", 2),
      RIntern("bad"), RIntern("x"), RIntern("y"), RFnCall("add", 0), RInt(9),
      RFnCall("two", 2), RFnDef("bad", 2),
      RIntern("t"), RInt(1), RInt(2), RFnCall("bad", 2), RFnDef("t", 0)>>

\* fn bad() { nope() } entered first, fn good() { 7 } entered after it
SrcFailedThenGood ==
    <<RIntern("bad"), RFnCall("nope", 0), RFnDef("bad", 0),
      RIntern("good"), RInt(7), RFnDef("good", 0)>>

\* fn c() { 1 }  fn b() { c() }  fn a() { a() + b() }  fn d() { 2 }
SrcDependencies ==
    <<RIntern("c"), RInt(1), RFnDef("c", 0),
      RIntern("b"), RFnCall("c", 0), RFnDef("b", 0),
      RIntern("a"), RFnCall("a", 0), RFnCall("b", 0), RAdd, RFnDef("a", 0),
      RIntern("d"), RInt(2), RFnDef("d", 0)>>

Programs ==
    <<SrcMuladd \o SrcTestSimple,
      SrcMuladd \o SrcTestNestedLast,
      SrcMuladd \o SrcTestNestedFirst,
      SrcMuladd \o SrcTestNestedMiddle,
      SrcMuladd \o SrcTestNestedAll,
      SrcCurry \o SrcTestCurried,
      SrcAddNoArgs, SrcTooMany, SrcTooFew, SrcTooFewAtBottom, SrcUndefined,
      SrcForward, SrcMutual, SrcTypeMismatch,
      SrcEvalOk, SrcEvalMismatch, SrcPrimitiveArity, SrcSameParam,
      SrcDupCapture, SrcSecondParam, SrcCaptureUnderTemp, SrcArgEatsStack, SrcFailedThenGood, SrcDependencies>>

\* the requests an arbitrary front end draws from; a parameter reference
\* names a string already interned
FreeRequests ==
    {RInt(1), RUser("f"), RPrim("Add"), RLambda(1), RAdd}
      \cup {RParam(string_pool[i], 1, 0) : i \in DOMAIN string_pool}
      \cup {RCall(n) : n \in 0..2}
      \cup {RFnCall("f", n) : n \in 0..2}
      \cup {RFnDef("f", n) : n \in 0..1}

\* the requests the front end may issue next
Requests ==
    IF crashed THEN {}
    ELSE IF program = 0
    THEN IF Len(nodes) < MaxNodes THEN FreeRequests ELSE {}
    ELSE IF pc < Len(Programs[program]) THEN {Programs[program][pc + 1]} ELSE {}

ThePool == Pool(nodes, string_pool, function_defs)

\* the front end's bookkeeping when a builder operation consumed the top
\* `used` roots and appended the nodes from Len(nodes) up, the last of which
\* has the arguments `args` and is the new root
Built(r, res, used, args) ==
    LET old == Len(nodes)
        new == Len(res.pool.nodes)
        low == IF used = 0 THEN old ELSE first_of[roots[Len(roots) - used + 1] + 1]
    IN  /\ nodes' = res.pool.nodes
        /\ string_pool' = res.pool.string_pool
        /\ function_defs' = res.pool.function_defs
        /\ ret' = res.idx
        /\ roots' = Append(DropK(roots, used), res.idx)
        /\ args_of' = args_of \o [i \in 1..(new - old) |-> IF old + i = new THEN args ELSE <<>>]
        /\ first_of' = first_of \o [i \in 1..(new - old) |-> IF old + i = new THEN low ELSE old + i - 1]
        /\ last_op' = r
        /\ pc' = IF program = 0 THEN 0 ELSE pc + 1
        /\ UNCHANGED <<program, overflow_checks, table_vars, last_result, crashed,
                       last_check, last_children, last_deps>>

InternString ==
    \E r \in Requests :
        /\ r.op = "intern_string"
        /\ string_pool' = intern_string(string_pool, r.s).pool
        /\ ret' = intern_string(string_pool, r.s).idx
        /\ last_op' = r
        /\ pc' = IF program = 0 THEN 0 ELSE pc + 1
        /\ UNCHANGED <<nodes, function_defs, roots, args_of, first_of, program, overflow_checks,
                       table_vars, last_result, crashed, last_check,
          last_children, last_deps>>

AddInteger ==
    \E r \in Requests :
        /\ r.op = "add_integer"
        /\ Built(r, add_integer(ThePool, r.a), 0, <<>>)

\* the parser resolves the name in its scope, where it was interned
AddParamRef ==
    \E r \in Requests :
        /\ r.op = "add_param_ref"
        /\ string_map_get(string_pool, r.s) # None
        /\ Built(r, add_param_ref(ThePool, string_map_get(string_pool, r.s)[1], r.a, r.b),
                 0, <<>>)

AddPrimitiveFunc ==
    \E r \in Requests :
        /\ r.op = "add_primitive_func"
        /\ Built(r, add_primitive_func(ThePool, r.s), 0, <<>>)

AddUserFunc ==
    \E r \in Requests :
        /\ r.op = "add_user_func"
        /\ Built(r, add_user_func(ThePool, r.s), 0, <<>>)

\* the body is the subtree parsed last
AddLambda ==
    \E r \in Requests :
        /\ r.op = "add_lambda"
        /\ Len(roots) >= 1
        /\ Built(r, add_lambda(ThePool, r.a, roots[Len(roots)]), 1, <<>>)

\* the callee is the subtree parsed last, the arguments the r.a before it
AddCall ==
    \E r \in Requests :
        /\ r.op = "add_call"
        /\ Len(roots) >= r.a + 1
        /\ Built(r, add_call(ThePool, roots[Len(roots)], r.a), r.a + 1,
                 LastK(DropK(roots, 1), r.a))

AddAdd ==
    \E r \in Requests :
        /\ r.op = "add_add"
        /\ Len(roots) >= 2
        /\ Built(r, add_add(ThePool, r.a), 2, LastK(roots, 2))

AddMultiply ==
    \E r \in Requests :
        /\ r.op = "add_multiply"
        /\ Len(roots) >= 2
        /\ Built(r, add_multiply(ThePool, r.a), 2, LastK(roots, 2))

AddFunctionCall ==
    \E r \in Requests :
        /\ r.op = "add_function_call"
        /\ Len(roots) >= r.a
        /\ Built(r, add_function_call(ThePool, r.s, r.a), r.a, LastK(roots, r.a))

\* a function definition closes a top-level item: its body is the one
\* pending subtree
AddFunctionDef ==
    \E r \in Requests :
        /\ r.op = "add_function_def"
        /\ Len(roots) = 1
        /\ LET res == add_function_def(ThePool, r.s, r.a, roots[1])
           IN  /\ nodes' = res.pool.nodes
               /\ string_pool' = res.pool.string_pool
               /\ function_defs' = res.pool.function_defs
               /\ ret' = res.idx
               /\ roots' = <<>>
               /\ args_of' = Append(args_of, <<>>)
               /\ first_of' = Append(first_of, first_of[roots[1] + 1])
        /\ last_op' = r
        /\ pc' = IF program = 0 THEN 0 ELSE pc + 1
        /\ UNCHANGED <<program, overflow_checks, table_vars, last_result, crashed,
                       last_check, last_children, last_deps>>

\* compile(pool) on the table built so far; the pool holds whole items only
Compile ==
    /\ ~crashed
    /\ roots = <<>>
    /\ compiles < MaxCompiles
    /\ \E order \in Orders(DOMAIN function_defs) :
          \E c \in {compile(CF(functions, compiled_defs), ThePool, order)} :
              /\ functions' = c.cf.functions
              /\ compiled_defs' = c.cf.function_defs
              /\ crashed' = c.panicked
    /\ compiles' = compiles + 1
    /\ last_op' = Req("compile", "", 0, 0)
    /\ UNCHANGED <<arena_vars, program, overflow_checks, last_result, last_check,
                 last_children, last_deps>>

\* execute(expr_idx, pool) for the body of a function definition
Execute ==
    /\ ~crashed
    /\ roots = <<>>
    /\ \E def \in DOMAIN nodes :
          /\ nodes[def].kind = "FunctionDef"
          /\ \E r \in {execute(CF(functions, compiled_defs), nodes[def].body_idx, ThePool)} :
                 /\ last_result' = [expr |-> nodes[def].body_idx, defs |-> compiled_defs,
                                    outcome |-> r.outcome, err |-> r.err,
                                    value |-> r.value, log |-> r.log]
                 /\ crashed' = (r.outcome \in {"panic", "stack_overflow"})
    /\ last_op' = Req("execute", "", 0, 0)
    /\ UNCHANGED <<arena_vars, program, overflow_checks, table_vars, last_check,
                 last_children, last_deps>>

\* find_dependencies not asked yet
NoDeps == [name |-> "", dependencies |-> {}, visited |-> {}]

\* what children(idx) came to: nothing asked yet
NoChildren == [idx |-> 0 - 1, st |-> "none", val |-> None]

\* a read outside the vector is undefined: the process dies on it, or goes on
\* with whatever the memory holds and hands back a list with that index in it
ChildrenOutcomes(idx, c) ==
    IF c.st = "outside"
    THEN {[idx |-> idx, st |-> "fault", val |-> None],
          [idx |-> idx, st |-> "ok", val |-> Some(<<c.val>>)]}
    ELSE {[idx |-> idx, st |-> c.st, val |-> c.val]}

\* a caller of the arena API that appends an integer
RawAddInteger ==
    /\ last_children = NoChildren
    /\ Len(nodes) < MaxArena
    /\ nodes' = add_integer(ThePool, 1).pool.nodes
    /\ ret' = add_integer(ThePool, 1).idx
    /\ last_op' = RInt(1)
    /\ UNCHANGED <<string_pool, function_defs, roots, args_of, first_of, pc, program,
                   overflow_checks, table_vars, last_result, crashed, last_check,
                   last_children, last_deps>>

\* a caller of the arena API that appends a call of f with any argument
\* count, whatever it appended before
RawAddFunctionCall ==
    /\ last_children = NoChildren
    /\ Len(nodes) + 2 <= MaxArena
    /\ \E n \in 0 .. MaxChildCount :
          /\ nodes' = add_function_call(ThePool, "f", n).pool.nodes
          /\ string_pool' = add_function_call(ThePool, "f", n).pool.string_pool
          /\ ret' = add_function_call(ThePool, "f", n).idx
          /\ last_op' = RFnCall("f", n)
    /\ UNCHANGED <<function_defs, roots, args_of, first_of, pc, program,
                   overflow_checks, table_vars, last_result, crashed, last_check,
                   last_children, last_deps>>

\* children(idx) asked of the arena as it stands
Children ==
    /\ last_children = NoChildren
    /\ \E idx \in 0 .. (Len(nodes) - 1) :
          \E c \in {children_usize(nodes, idx, overflow_checks)} :
             last_children' \in ChildrenOutcomes(idx, c)
    /\ last_op' = Req("children", "", 0, 0)
    /\ UNCHANGED <<arena_vars, program, overflow_checks, table_vars, last_result,
                   crashed, last_check, last_deps>>

\* Interpreter::load_file once import_file has lowered the text: the check,
\* and only if it passes, compile on the interpreter's table
LoadFile ==
    /\ ~crashed
    /\ roots = <<>>
    /\ compiles < MaxCompiles
    /\ \E check_order \in Orders(DOMAIN function_defs) :
          \E checked \in {check_program(ThePool, check_order)} :
             /\ last_check' = checked
             /\ IF checked # "ok"
                THEN UNCHANGED <<table_vars, crashed>>
                ELSE \E order \in Orders(DOMAIN function_defs) :
                       \E c \in {compile(CF(functions, compiled_defs), ThePool, order)} :
                          /\ functions' = c.cf.functions
                          /\ compiled_defs' = c.cf.function_defs
                          /\ crashed' = c.panicked
                          /\ compiles' = compiles + 1
    /\ last_op' = Req("load_file", "", 0, 0)
    /\ UNCHANGED <<arena_vars, program, overflow_checks, last_result, last_children, last_deps>>

\* the text the interpreter lowered last was the synthetic fn __eval__() { expr }
IsSyntheticEval ==
    /\ nodes # <<>>
    /\ nodes[Len(nodes)].kind = "FunctionDef"
    /\ string_map_get(string_pool, "__eval__") = Some(nodes[Len(nodes)].name_idx)

\* Interpreter::eval_expression once parse_program has lowered the text: the
\* check, and only if it passes, compile into a new table and, for an
\* expression, execute the body of __eval__
EvalExpression ==
    /\ ~crashed
    /\ roots = <<>>
    /\ compiles < MaxCompiles
    /\ \E check_order \in Orders(DOMAIN function_defs) :
          \E checked \in {check_program(ThePool, check_order)} :
             /\ last_check' = checked
             /\ IF checked # "ok"
                THEN UNCHANGED <<table_vars, crashed, last_result>>
                ELSE \E order \in Orders(DOMAIN function_defs) :
                       \E c \in {compile(CF(<<>>, <<>>), ThePool, order)} :
                          /\ functions' = c.cf.functions
                          /\ compiled_defs' = c.cf.function_defs
                          /\ compiles' = compiles + 1
                          /\ IF c.panicked \/ ~IsSyntheticEval
                             THEN /\ crashed' = c.panicked
                                  /\ UNCHANGED last_result
                             ELSE \E r \in {execute(c.cf, nodes[Len(nodes)].body_idx, ThePool)} :
                                    /\ last_result' =
                                          [expr |-> nodes[Len(nodes)].body_idx,
                                           defs |-> c.cf.function_defs,
                                           outcome |-> r.outcome, err |-> r.err,
                                           value |-> r.value, log |-> r.log]
                                    /\ crashed' = (r.outcome \in {"panic", "stack_overflow"})
    /\ last_op' = Req("eval_expression", "", 0, 0)
    /\ UNCHANGED <<arena_vars, program, overflow_checks, last_children, last_deps>>

----------------------------------------------------------------------------

NoResult == [expr |-> 0 - 1, defs |-> <<>>, outcome |-> "none", err |-> "",
             value |-> VInt(0), log |-> {}]

Init ==
    /\ nodes = <<>>
    /\ string_pool = <<>>
    /\ function_defs = <<>>
    /\ roots = <<>>
    /\ args_of = <<>>
    /\ first_of = <<>>
    /\ ret = 0
    /\ last_op = Req("new", "", 0, 0)
    /\ program \in 0..Len(Programs)
    /\ pc = 0
    /\ overflow_checks \in BOOLEAN
    /\ functions = <<>>
    /\ compiled_defs = <<>>
    /\ compiles = 0
    /\ last_result = NoResult
    /\ crashed = FALSE
    /\ last_check = "none"
    /\ last_children = NoChildren
    /\ last_deps = NoDeps

Next ==
    \/ InternString
    \/ AddInteger
    \/ AddParamRef
    \/ AddPrimitiveFunc
    \/ AddUserFunc
    \/ AddLambda
    \/ AddCall
    \/ AddAdd
    \/ AddMultiply
    \/ AddFunctionCall
    \/ AddFunctionDef
    \/ Compile
    \/ Execute
    \/ LoadFile
    \/ EvalExpression

Spec == Init /\ [][Next]_vars

\* the arena under callers that keep no order
InitArena == Init /\ program = 0

NextArena ==
    \/ RawAddInteger
    \/ RawAddFunctionCall
    \/ Children

SpecArena == InitArena /\ [][NextArena]_vars

----------------------------------------------------------------------------
(* AstPool::import_file: the arena built so far is the file's own parse    *)
(* (temp_pool); the step merges it into the interpreter's pool.            *)

\* format!("{}::{}", file_stem, name)
Qualified(file_stem, name) == file_stem \o "::" \o name

\* the loop over temp_pool.string_pool: the interner of self afterwards and
\* name_idx_mapping (entry i + 1 is the new handle of the old handle i)
RECURSIVE name_idx_mapping(_, _, _, _, _)
name_idx_mapping(sp, temp, file_stem, i, mapping) ==
    IF i >= Len(temp.string_pool) THEN [pool |-> sp, mapping |-> mapping]
    ELSE LET name == temp.string_pool[i + 1]
             is_function_name == i \in DOMAIN temp.function_defs
             new_name == IF is_function_name THEN Qualified(file_stem, name) ELSE name
             interned == intern_string(sp, new_name)
         IN  name_idx_mapping(interned.pool, temp, file_stem, i + 1,
                              Append(mapping, interned.idx))

\* idx_mapping.get(idx).unwrap_or(idx)
idx_mapping(temp, base_offset, idx) ==
    IF idx \in 0 .. (Len(temp.nodes) - 1) THEN base_offset + idx ELSE idx

\* the closure of nodes.extend(...): FunctionDef and UserFunc are rewritten,
\* every other node is cloned
import_node(temp, base_offset, mapping, node) ==
    CASE node.kind = "FunctionDef" ->
           FunctionDef(mapping[node.name_idx + 1], node.param_count,
                       idx_mapping(temp, base_offset, node.body_idx))
      [] node.kind = "UserFunc" ->
           IF node.name_idx \in DOMAIN temp.function_defs
           THEN UserFunc(mapping[node.name_idx + 1])
           ELSE node
      [] OTHER -> node

import_file(self, temp, file_stem) ==
    LET base_offset == Len(self.nodes)
        names == name_idx_mapping(self.string_pool, temp, file_stem, 0, <<>>)
        imported == [i \in DOMAIN temp.nodes |->
                        import_node(temp, base_offset, names.mapping, temp.nodes[i])]
        defs == [k \in DOMAIN self.function_defs
                         \cup {names.mapping[old + 1] : old \in DOMAIN temp.function_defs} |->
                    IF \E old \in DOMAIN temp.function_defs : names.mapping[old + 1] = k
                    THEN base_offset + temp.function_defs[
                             CHOOSE old \in DOMAIN temp.function_defs :
                                 names.mapping[old + 1] = k]
                    ELSE self.function_defs[k]]
    IN  Pool(self.nodes \o imported, names.pool, defs)

\* the interpreter's pool before the import: new, or after the expression 1
\* was evaluated, or after the text of the file itself was entered
EvalPool == add_function_def(add_integer(Pool(<<>>, <<>>, <<>>), 1).pool, "__eval__", 0, 0).pool

BasePools == {Pool(<<>>, <<>>, <<>>), EvalPool, ThePool}

ImportFile ==
    /\ program >= 1
    /\ pc = Len(Programs[program])
    /\ roots = <<>>
    /\ last_op.op # "import_file"
    /\ \E self \in BasePools :
          \E merged \in {import_file(self, ThePool, "m")} :
             /\ nodes' = merged.nodes
             /\ string_pool' = merged.string_pool
             /\ function_defs' = merged.function_defs
             /\ last_op' = Req("import_file", "m", Len(self.nodes), 0)
    /\ UNCHANGED <<roots, args_of, first_of, ret, pc, program, overflow_checks,
                   table_vars, last_result, crashed, last_check, last_children, last_deps>>

NextImport ==
    \/ InternString
    \/ AddInteger
    \/ AddParamRef
    \/ AddPrimitiveFunc
    \/ AddUserFunc
    \/ AddLambda
    \/ AddCall
    \/ AddAdd
    \/ AddMultiply
    \/ AddFunctionCall
    \/ AddFunctionDef
    \/ ImportFile

SpecImport == Init /\ [][NextImport]_vars

----------------------------------------------------------------------------
(* AstPool::find_dependencies: `dependencies` and `visited` are threaded   *)
(* through the walk as the two &mut HashSet arguments are.                 *)

RECURSIVE find_dependencies_recursive(_, _, _), visit_children(_, _, _)

\* the UserFunc arm without the walk into the function referred to
visit_user_func_direct_only(p, name_idx, st) ==
    IF name_idx \in DOMAIN p.function_defs
    THEN [st EXCEPT !.dependencies = @ \cup {name_idx}]
    ELSE st

\* the UserFunc arm: a defined function met for the first time is added and
\* its definition walked
visit_user_func(p, name_idx, st) ==
    IF name_idx \in DOMAIN p.function_defs
    THEN IF name_idx \notin st.dependencies
         THEN find_dependencies_recursive(p, p.function_defs[name_idx],
                  [st EXCEPT !.dependencies = @ \cup {name_idx}])
         ELSE st
    ELSE st

find_dependencies_recursive(p, node_idx, st) ==
    IF node_idx \in st.visited THEN st
    ELSE \* st2: after the match on the node, before its children
         LET st2 == CASE At(p.nodes, node_idx).kind = "UserFunc" ->
                           visit_user_func(p, At(p.nodes, node_idx).name_idx,
                               [st EXCEPT !.visited = @ \cup {node_idx}])
                      [] At(p.nodes, node_idx).kind = "Call" ->
                           find_dependencies_recursive(p, At(p.nodes, node_idx).func_idx,
                               [st EXCEPT !.visited = @ \cup {node_idx}])
                      [] OTHER -> [st EXCEPT !.visited = @ \cup {node_idx}]
         IN  IF children(p.nodes, node_idx) = None THEN st2
             ELSE visit_children(p, children(p.nodes, node_idx)[1], st2)

\* for child_idx in children { find_dependencies_recursive(child_idx, ...) }
visit_children(p, idxs, st) ==
    IF idxs = <<>> THEN st
    ELSE visit_children(p, Tail(idxs), find_dependencies_recursive(p, Head(idxs), st))

find_dependencies(p, function_name) ==
    LET name_idx == string_map_get(p.string_pool, function_name)
        st == [dependencies |-> {}, visited |-> {}]
    IN  IF name_idx # None /\ name_idx[1] \in DOMAIN p.function_defs
        THEN find_dependencies_recursive(p, p.function_defs[name_idx[1]], st)
        ELSE st

\* Interpreter::get_deps for a name the interner holds
FindDependencies ==
    /\ last_deps = NoDeps
    /\ roots = <<>>
    /\ \E i \in DOMAIN string_pool :
          \E found \in {find_dependencies(ThePool, string_pool[i])} :
             last_deps' = [name |-> string_pool[i], dependencies |-> found.dependencies,
                           visited |-> found.visited]
    /\ last_op' = Req("find_dependencies", "", 0, 0)
    /\ UNCHANGED <<arena_vars, program, overflow_checks, table_vars, last_result,
                   crashed, last_check, last_children>>

NextDeps ==
    \/ InternString
    \/ AddInteger
    \/ AddParamRef
    \/ AddPrimitiveFunc
    \/ AddUserFunc
    \/ AddLambda
    \/ AddCall
    \/ AddAdd
    \/ AddMultiply
    \/ AddFunctionCall
    \/ AddFunctionDef
    \/ FindDependencies

SpecDeps == Init /\ [][NextDeps]_vars

----------------------------------------------------------------------------
(* Properties *)

NameIdx(s) == string_map_get(string_pool, s)[1]

\* the source text Programs[k] has been lowered into the arena completely
Lowered(k) == program = k /\ pc = Len(Programs[k])

\* the body of the function definition named s
BodyOf(s) == nodes[function_defs[NameIdx(s)] + 1].body_idx

\* the last execute ran the body of s with the function t in the table
Evaluated(s, t) ==
    /\ last_result.expr = BodyOf(s)
    /\ NameIdx(t) \in DOMAIN last_result.defs

\* the subtree rooted at idx occupies the arena slots Slots(idx)
Slots(idx) == (idx - len(nodes, idx) + 1) .. idx

IsCall(idx) == At(nodes, idx).kind = "Call"

IntegerAt(idx, v) == At(nodes, idx) = Integer(v)

\* C2: for every Call node, children(node) is exactly the child_count roots of
\* its argument subtrees in left-to-right source order, whether an argument is
\* an atom or a nested Call in first, middle or last position.
C2_ChildrenAreTheArguments ==
    \A i \in DOMAIN nodes :
        nodes[i].kind = "Call" =>
            /\ children(nodes, i - 1) = Some(args_of[i])
            /\ Len(args_of[i]) = nodes[i].child_count

\* a three-argument Call whose middle argument is itself a Call
C2_NestedMiddleReached ==
    \E i \in DOMAIN nodes :
        /\ nodes[i].kind = "Call" /\ nodes[i].child_count = 3
        /\ children(nodes, i - 1) # None
        /\ LET c == children(nodes, i - 1)[1]
           IN  ~IsCall(c[1]) /\ IsCall(c[2]) /\ ~IsCall(c[3])

C4_LenIsSubtreeSize ==
    \A i \in DOMAIN nodes :
        LET idx == i - 1
            n == nodes[i]
        IN  /\ len(nodes, idx) = idx - first_of[i] + 1
            /\ n.kind = "Call" =>
                  /\ children(nodes, idx) # None
                  /\ len(nodes, idx) = 1 + len(nodes, n.func_idx)
                                          + SumLen(nodes, children(nodes, idx)[1])
            /\ n.kind \in {"Lambda", "FunctionDef"} =>
                  len(nodes, idx) = 1 + len(nodes, n.body_idx)
            /\ n.kind \in {"Integer", "ParamRef", "PrimitiveFunc", "UserFunc"} =>
                  len(nodes, idx) = 1

\* a Call whose callee is a Call and one whose argument is a Call
C4_NestedReached ==
    /\ \E i \in DOMAIN nodes :
          /\ nodes[i].kind = "Call" /\ IsCall(nodes[i].func_idx)
          /\ len(nodes, i - 1) = 10
    /\ \E i \in DOMAIN nodes :
          /\ nodes[i].kind = "Call" /\ nodes[i].child_count = 2
          /\ \E j \in 1..2 : IsCall(args_of[i][j]) /\ len(nodes, args_of[i][j]) = 4

SingleNodeOps ==
    {"add_integer", "add_param_ref", "add_primitive_func", "add_user_func",
     "add_lambda", "add_call", "add_function_def"}

\* C9: each of add_integer, add_param_ref, add_primitive_func, add_user_func,
\* add_lambda, add_call and add_function_def appends exactly one node and
\* returns the arena length before the call; no step removes or rewrites a
\* node already in the arena.
C9_BuildersOnlyAppend ==
    [][/\ Len(nodes') >= Len(nodes)
       /\ SubSeq(nodes', 1, Len(nodes)) = nodes
       /\ last_op'.op \in SingleNodeOps =>
             /\ Len(nodes') = Len(nodes) + 1
             /\ ret' = Len(nodes)]_vars

\* an add_call has returned the index of the node it appended after others
C9_AddCallReached ==
    /\ last_op.op = "add_call"
    /\ Len(nodes) >= 3
    /\ ret = Len(nodes) - 1
    /\ nodes[ret + 1].kind = "Call"

\* C7: with muladd(x, y, z) = x * y + z compiled, the body muladd(1, 2, 3)
\* evaluates to the integer 5 and the body muladd(1, 2, muladd(3, 4, 5)) to
\* the integer 19.
C7_MuladdValues ==
    /\ (Lowered(1) /\ Evaluated("test1", "muladd")) =>
          (last_result.outcome = "some" /\ last_result.value = VInt(5))
    /\ (Lowered(2) /\ Evaluated("test1", "muladd")) =>
          (last_result.outcome = "some" /\ last_result.value = VInt(19))

\* the nested call has been evaluated, under a build with overflow checks
C7_NestedEvaluated ==
    /\ Lowered(2) /\ Evaluated("test1", "muladd")
    /\ last_result.value = VInt(19)
    /\ overflow_checks

\* C1: every Call closure that returns Ok leaves the value stack exactly one
\* element longer than it found it, whatever the entry stack and nesting.
C1_CallPushesOne ==
    \A ev \in last_result.log :
        ev.st = "ok" => Len(ev.exit) = Len(ev.entry) + 1

\* C5: a Call of a user function with an argument count other than the
\* function's parameter count returns the arity error without running the
\* body, the stack then being the entry contents plus the arguments.
C5_ArityMismatchIsAnError ==
    \A ev \in last_result.log :
        (ev.callee.k = "slot" /\ ev.nargs # ev.callee.param_count) =>
            /\ ev.st = "err" /\ ev.err = "arity"
            /\ ~ev.invoked
            /\ Len(ev.exit) = Len(ev.entry) + ev.nargs
            /\ SubSeq(ev.exit, 1, Len(ev.entry)) = ev.entry

\* the lambda closures inside a closure
RECURSIVE LambdasIn(_), LambdasInAll(_)
LambdasInAll(codes) ==
    IF codes = <<>> THEN {} ELSE LambdasIn(Head(codes)) \cup LambdasInAll(Tail(codes))

LambdasIn(code) ==
    CASE code.op = "call" -> LambdasIn(code.func) \cup LambdasInAll(code.child_lambdas)
      [] code.op = "lambda" -> {code} \cup LambdasIn(code.body_func)
      [] code.op = "fun_def" -> LambdasIn(code.body_lambda)
      [] OTHER -> {}

\* C6: lowering curry, the capture set found for the inner lambda (lambda f)
\* is exactly a, b of curry and c, d, e of the outer lambda, without f.
C6_InnerCaptureSet ==
    Lowered(6) =>
        \A i \in DOMAIN functions :
            \A lam \in LambdasIn(functions[i].body) :
                lam.node = At(nodes, BodyOf("curry")).body_idx =>
                    lam.found = <<<<1, 0>>, <<1, 1>>, <<2, 0>>, <<2, 1>>, <<2, 2>>>>

\* C8: with curry compiled, the body curry(1, 2)(3, 4, 5)(6) evaluates to the
\* integer 21.
C8_CurryValue ==
    (Lowered(6) /\ Evaluated("test_curried", "curry")) =>
        (last_result.outcome = "some" /\ last_result.value = VInt(21))

\* C10: once compile has returned, every slot of the function table holds a
\* compiled body, none the placeholder of pass 1.
C10_NoPlaceholderAfterCompile ==
    (compiles > 0 /\ ~crashed) =>
        \A i \in DOMAIN functions : functions[i].body # Placeholder

\* every function-table slot holds its compiled body
AllCompiled == \A i \in DOMAIN functions : functions[i].body # Placeholder

\* C11: a UserFunc reference lowered while its target's slot held the pass-1
\* placeholder denotes the slot, not the placeholder: once compile has
\* filled every slot, no execution runs a placeholder, a forward reference
\* yields the target's value, and self- and mutual recursion run the real
\* bodies (they recurse until the native stack is exhausted).
C11_ReferencesResolveBySlot ==
    /\ (AllCompiled /\ last_result.defs = compiled_defs) =>
          ~(last_result.outcome = "panic" /\ last_result.err = "placeholder")
    /\ (Lowered(12) /\ Evaluated("a", "b") /\ NameIdx("a") \in DOMAIN last_result.defs) =>
          (last_result.outcome = "some" /\ last_result.value = VInt(7))
    /\ (Lowered(13) /\ Evaluated("p", "q") /\ NameIdx("p") \in DOMAIN last_result.defs) =>
          last_result.outcome = "stack_overflow"
    /\ (program = 0 /\ last_result.expr >= 0 /\ last_result.defs # <<>>
          /\ nodes = <<UserFunc(0), Call(0, 0), FunctionDef(0, 0, 1)>>) =>
          last_result.outcome = "stack_overflow"

\* the forward reference of a to b has been executed through b's slot
C11_ForwardReferenceRan ==
    /\ Lowered(12) /\ Evaluated("a", "b")
    /\ last_result.value = VInt(7)
    /\ \E ev \in last_result.log : ev.callee.k = "slot" /\ ev.invoked

\* C12: an operand type mismatch, a stack underflow or an arity mismatch at
\* any call depth comes back as an error through every enclosing Call to the
\* caller of execute, which yields no value; none of them is a panic.
C12_ErrorsAreReturned ==
    /\ \A ev \in last_result.log :
          (ev.st = "err" /\ ev.err \in {"type", "underflow", "arity"}) =>
              (last_result.outcome = "none" /\ last_result.err = ev.err)
    /\ ~(last_result.outcome = "panic"
          /\ last_result.err \in {"param_underflow", "unwrap"})

\* the kinds of error the bodies of the defined functions hold: a reference
\* to a user function without definition, a call of a defined user function
\* with another number of arguments than it declares, a call of a primitive
\* with other than 2 arguments, a call of something that is no function name
OffenceAt(i) ==
    LET n == At(nodes, i)
        callee == At(nodes, n.func_idx)
    IN  CASE n.kind = "UserFunc" ->
               IF n.name_idx \in DOMAIN function_defs THEN {} ELSE {"UndefinedFunction"}
          [] n.kind = "Call" ->
               CASE callee.kind = "PrimitiveFunc" ->
                      IF n.child_count # 2 THEN {"InvalidPrimitiveArgCount"} ELSE {}
                 [] callee.kind = "UserFunc" ->
                      IF /\ callee.name_idx \in DOMAIN function_defs
                         /\ At(nodes, function_defs[callee.name_idx]).param_count # n.child_count
                      THEN {"ArgumentCountMismatch"} ELSE {}
                 [] OTHER -> {"InternalError"}
          [] OTHER -> {}

Offences ==
    UNION {OffenceAt(i) : i \in UNION {Slots(At(nodes, function_defs[name]).body_idx) :
                                            name \in DOMAIN function_defs}}

C14_HandlesAreStable ==
    [][/\ Len(string_pool') >= Len(string_pool)
       /\ SubSeq(string_pool', 1, Len(string_pool)) = string_pool
       /\ \A i, j \in DOMAIN string_pool' : string_pool'[i] = string_pool'[j] => i = j
       /\ last_op'.op = "intern_string" =>
             /\ ret' \in 0 .. (Len(string_pool') - 1)
             /\ get_string(string_pool', ret') = last_op'.s
             /\ \A h \in 0 .. (Len(string_pool) - 1) :
                   get_string(string_pool, h) = last_op'.s =>
                       (ret' = h /\ string_pool' = string_pool)]_vars

\* the parameter name x of id2 got the handle it had as the parameter of id1
C14_SecondInternOfX ==
    /\ program = 18
    /\ last_op = RIntern("x")
    /\ string_pool = <<"id1", "x", "id2">>
    /\ ret = 1

\* C15: children(idx) of a Call either yields indices of nodes below idx or
\* stops on the detected underflow; it hands back no index from a wrapped
\* subtraction and reads no node outside the arena.
C15_UnderflowIsDetected ==
    \/ last_children.st \in {"none", "panic"}
    \/ /\ last_children.st = "ok"
       /\ last_children.val # None =>
             \A i \in DOMAIN last_children.val[1] :
                 last_children.val[1][i] \in 0 .. (last_children.idx - 1)

C17_ArenaIsPostOrder ==
    \A i \in DOMAIN nodes :
        LET idx == i - 1
            n == nodes[i]
            args == args_of[i]
            Below(root) == root - len(nodes, root)
        IN  /\ n.kind \in {"Lambda", "FunctionDef"} => n.body_idx < idx
            /\ n.kind = "Call" =>
                  /\ n.func_idx < idx
                  /\ n.func_idx = idx - 1
                  /\ Len(args) = n.child_count
                  /\ \A j \in DOMAIN args :
                        /\ args[j] >= 0
                        /\ args[j] = IF j = Len(args) THEN Below(n.func_idx)
                                                       ELSE Below(args[j + 1])

\* muladd(muladd(1,2,3), muladd(4,5,6), muladd(7,8,9)) and the body
\* x * y + z of muladd are lowered
C17_NestedAllLowered ==
    /\ Lowered(5)
    /\ \E i \in DOMAIN nodes :
          /\ nodes[i].kind = "Call" /\ nodes[i].child_count = 3
          /\ \A j \in 1 .. 3 : IsCall(args_of[i][j])
    /\ \E i \in DOMAIN nodes :
          /\ nodes[i].kind = "Call"
          /\ At(nodes, nodes[i].func_idx) = PrimitiveFunc("Add")
          /\ IsCall(args_of[i][1])

\* the (level, offset) pairs of the ParamRef nodes in the body of the lambda
\* at arena index node that belong to a scope outside a lambda of depth d
OuterRefs(node, d) ==
    {<<At(nodes, i).level, At(nodes, i).offset>> :
        i \in {j \in Slots(At(nodes, node).body_idx) :
                  At(nodes, j).kind = "ParamRef" /\ At(nodes, j).level < d}}

\* C18: for every lambda lowered, at depth d, the capture analysis returns
\* exactly the pairs of the ParamRef nodes of its body with level < d: none
\* of its own or a nested lambda's parameters, and every outer one.
C18_CapturesAreTheOuterRefs ==
    \A i \in DOMAIN functions :
        \A lam \in LambdasIn(functions[i].body) :
            {lam.found[k] : k \in DOMAIN lam.found} = OuterRefs(lam.node, lam.curr_lev)

\* sort_by of a vector of pairs (an insertion sort by level, then offset)
RECURSIVE InsertPair(_, _), sort_by(_)
InsertPair(x, sorted) ==
    IF sorted = <<>> THEN <<x>>
    ELSE IF PairLess(x, Head(sorted)) THEN <<x>> \o sorted
    ELSE <<Head(sorted)>> \o InsertPair(x, Tail(sorted))

sort_by(pairs) ==
    IF pairs = <<>> THEN <<>> ELSE InsertPair(Head(pairs), sort_by(Tail(pairs)))

\* C19: the capture list of every lambda lowered is strictly ascending by
\* (level, offset), hence without duplicates, and it is the list that sorting
\* gives in whatever order the hash set yields the pairs collected.
C19_CaptureListSorted ==
    \A i \in DOMAIN functions :
        \A lam \in LambdasIn(functions[i].body) :
            /\ \A k \in 1 .. (Len(lam.found) - 1) : PairLess(lam.found[k], lam.found[k + 1])
            /\ \A o \in Orders(collect_captured_vars(lam.node, nodes, lam.curr_lev)) :
                  sort_by(o) = lam.found

\* |c| b + a + b is lowered: three references, visited as b, a, b, give the
\* capture list a, b
C19_DuplicateReferencesLowered ==
    /\ Lowered(19)
    /\ \E i \in DOMAIN functions :
          \E lam \in LambdasIn(functions[i].body) :
              /\ lam.node = BodyOf("twice")
              /\ lam.found = <<<<1, 0>>, <<1, 1>>>>
              /\ Cardinality({j \in Slots(At(nodes, lam.node).body_idx) :
                                  At(nodes, j).kind = "ParamRef"}) = 3

\* the parameter closures inside a closure, each with the address it was
\* lowered from and the context it was lowered in
RECURSIVE ParamsIn(_), ParamsInAll(_)
ParamsInAll(codes) ==
    IF codes = <<>> THEN {} ELSE ParamsIn(Head(codes)) \cup ParamsInAll(Tail(codes))

ParamsIn(code) ==
    CASE code.op = "param" -> {code}
      [] code.op = "call" -> ParamsIn(code.func) \cup ParamsInAll(code.child_lambdas)
      [] code.op = "lambda" -> ParamsIn(code.body_func)
      [] code.op = "fun_def" -> ParamsIn(code.body_lambda)
      [] OTHER -> {}

\* C20: every parameter lowered at a level of an open scope got the offset
\* stack_size - (frame_base(level) + offset), frame_base(level) being the
\* base recorded when that level's scope was entered, and in a parsed
\* program, where every reference is in scope, that difference is not
\* negative.
C20_OffsetFromFrameBase ==
    \A i \in DOMAIN functions :
        \A p \in ParamsIn(functions[i].body) :
            p.level \in 1 .. Len(p.frames) =>
                /\ p.param_index = (p.stack_size - (p.frames[p.level] + p.offset)) % UsizeModulus
                /\ program # 0 => p.stack_size >= p.frames[p.level] + p.offset

\* C21: a parameter reference yields the argument bound to the parameter:
\* with snd(x, y) = y lowered, snd(1, 2) evaluates to 2 and lowering does
\* not abort.
C21_ParamYieldsArgument ==
    /\ Lowered(20) => ~crashed
    /\ (Lowered(20) /\ Evaluated("t", "snd")) =>
          (last_result.outcome = "some" /\ last_result.value = VInt(2))

\* the Call closures inside a closure, each with the stack_size the context
\* had when compile_call was entered, after the callee and the arguments were
\* lowered, and after its dealloc
RECURSIVE CallsIn(_), CallsInAll(_)
CallsInAll(codes) ==
    IF codes = <<>> THEN {} ELSE CallsIn(Head(codes)) \cup CallsInAll(Tail(codes))

CallsIn(code) ==
    CASE code.op = "call" ->
           {code} \cup CallsIn(code.func) \cup CallsInAll(code.child_lambdas)
      [] code.op = "lambda" -> CallsIn(code.body_func)
      [] code.op = "fun_def" -> CallsIn(code.body_lambda)
      [] OTHER -> {}

\* C22: lowering keeps stack_size in step with the run: the dealloc that ends
\* the lowering of a Call takes the callee and the arguments off again, so
\* stack_size is then lower by their number than before the dealloc.
C22_DeallocLowersStackSize ==
    \A i \in DOMAIN functions :
        \A c \in CallsIn(functions[i].body) :
            c.stack_exit = c.stack_lowered - (Len(c.child_lambdas) + 1)

\* C23: the exit_scope that ends the lowering of a lambda undoes its
\* enter_scope: stack_size is what it was before, and the frame-base list and
\* the arg-count list are again of one length, their last entries those of
\* the scope around the lambda.
C23_ExitScopeUndoesEnterScope ==
    \A i \in DOMAIN functions :
        \A lam \in LambdasIn(functions[i].body) :
            /\ lam.ctx_exit.stack_size = lam.ctx_entry.stack_size
            /\ Len(lam.ctx_exit.frames) = Len(lam.ctx_exit.arg_count)
            /\ lam.ctx_exit.frames = lam.ctx_entry.frames
            /\ lam.ctx_exit.arg_count = lam.ctx_entry.arg_count

\* C24: the function value a lambda yields holds the values its captured
\* variables had when the lambda ran, and declares the lambda's param_count:
\* k(5), with k(a) = ap(|c| a, 7) and ap(f, x) = f, is a function of one
\* parameter that holds 5.
C24_LambdaHoldsCapturedValues ==
    (Lowered(21) /\ Evaluated("t", "k") /\ NameIdx("ap") \in DOMAIN last_result.defs
        /\ AllCompiled /\ last_result.defs = compiled_defs) =>
        /\ last_result.outcome = "some"
        /\ last_result.value.t = "Fun"
        /\ last_result.value.v.k = "closure"
        /\ last_result.value.v.param_count = 1
        /\ last_result.value.v.captures = <<VInt(5)>>

\* C25: a Call closure that returns Ok leaves every stack element below the
\* height it recorded on entry as it was.
C25_CallKeepsStackBelowEntry ==
    \A ev \in last_result.log :
        ev.st = "ok" =>
            /\ Len(ev.exit) >= Len(ev.entry)
            /\ SubSeq(ev.exit, 1, Len(ev.entry)) = ev.entry

\* the scope of the body of the inner lambda of curry
CurryScope ==
    add_param(create_child(
        add_param(add_param(add_param(create_child(
            add_param(add_param(create_child(Scope_new), "a"), "b")), "c"), "d"), "e")), "f")

\* C26: a parameter reference carries the level and the offset of the
\* innermost scope declaring its name (1 for the function's parameters, one
\* more per lambda around it), and the compiler reads the level the same
\* way: a reference with the level of the lambda being lowered is that
\* lambda's own parameter, not a captured one, and is addressed from the
\* lambda's own frame base.
C26_LevelConvention ==
    /\ lookup(add_param(create_child(CurryScope), "a"), "a") = Some([offset |-> 0, level |-> 4])
    /\ Lowered(6) =>
          \A i \in Slots(BodyOf("curry")) :
              At(nodes, i).kind = "ParamRef" =>
                  lookup(CurryScope, string_pool[At(nodes, i).name + 1])
                      = Some([offset |-> At(nodes, i).offset, level |-> At(nodes, i).level])
    /\ \A i \in DOMAIN functions :
          /\ \A lam \in LambdasIn(functions[i].body) :
                \A k \in DOMAIN lam.found : lam.found[k][1] # lam.curr_lev
          /\ \A p \in ParamsIn(functions[i].body) :
                p.level = Len(p.frames) =>
                    p.param_index = (p.stack_size - (p.frames[p.level] + p.offset)) % UsizeModulus

\* C27: when a Call closure invokes its callee, the stack is the stack the
\* Call was entered with and, above it, one value per argument: the last
\* argument deepest, the first argument on top (argument i, counting from 0,
\* is i positions below the top).
C27_ArgumentsBelowCallee ==
    \A ev \in last_result.log : ev.invoked =>
        /\ Len(ev.at_invoke) = Len(ev.entry) + ev.nargs
        /\ SubSeq(ev.at_invoke, 1, Len(ev.entry)) = ev.entry
        /\ \A i \in 0 .. (ev.nargs - 1) :
              LET arg == children(nodes, ev.node)[1][i + 1]
              IN  At(nodes, arg).kind = "Integer" =>
                      /\ i < Len(ev.at_invoke)
                      /\ ev.at_invoke[Len(ev.at_invoke) - i] = VInt(At(nodes, arg).value)

\* the step is the check of eval_expression or load_file
IsCheckStep == last_op'.op \in {"eval_expression", "load_file"}

\* C28: an input that fails the type check leaves the arena, function_defs
\* and the function table as they were before it was entered (here: empty),
\* and a well-formed definition entered after it passes the check as if the
\* failed input had never been entered.
C28_FailedInputLeavesNoTrace ==
    [][/\ (program = 23 /\ pc = 3 /\ IsCheckStep /\ last_check' # "ok") =>
            (nodes' = <<>> /\ function_defs' = <<>> /\ functions' = <<>>)
       /\ (program = 23 /\ pc = 6 /\ last_op.op = "add_function_def"
              /\ last_check \notin {"ok", "none"} /\ IsCheckStep) =>
            last_check' = "ok"]_vars

\* the indices of a children() result moved up by base
Shifted(c, base) == IF c = None THEN None ELSE Some([k \in DOMAIN c[1] |-> c[1][k] + base])

\* C29: import_file into a pool that already holds nodes keeps the structure
\* of what it imports: the body_idx of an imported FunctionDef and the
\* func_idx of an imported Call refer to the imported copies, and len and
\* children of an imported node are those of the file's own parse moved up
\* by the base offset.
C29_ImportKeepsStructure ==
    [][(last_op'.op = "import_file" /\ last_op'.a > 0) =>
          \A i \in 0 .. (Len(nodes) - 1) :
              /\ nodes[i + 1].kind = "FunctionDef" =>
                    nodes'[last_op'.a + i + 1].body_idx = nodes[i + 1].body_idx + last_op'.a
              /\ nodes[i + 1].kind = "Call" =>
                    nodes'[last_op'.a + i + 1].func_idx = nodes[i + 1].func_idx + last_op'.a
              /\ len(nodes', last_op'.a + i) = len(nodes, i)
              /\ children(nodes', last_op'.a + i) = Shifted(children(nodes, i), last_op'.a)]_vars

\* the defined functions the body of the definition g refers to
Refs(g) ==
    {nodes[k + 1].name_idx :
        k \in {j \in Slots(nodes[function_defs[g] + 1].body_idx) :
                  nodes[j + 1].kind = "UserFunc"}} \cap DOMAIN function_defs

\* S and everything referred to from S, transitively
RECURSIVE RefsClosure(_)
RefsClosure(S) ==
    LET more == S \cup UNION {Refs(g) : g \in S}
    IN  IF more = S THEN S ELSE RefsClosure(more)

\* the functions reachable from the body of the function named s
Reachable(s) ==
    IF string_map_get(string_pool, s) # None /\ NameIdx(s) \in DOMAIN function_defs
    THEN RefsClosure(Refs(NameIdx(s)))
    ELSE {}

\* C30: find_dependencies(f) comes to an end, expanding no node twice, and
\* returns exactly the defined user functions reachable from the body of f
\* through UserFunc references, transitively, also when f calls itself or
\* functions call each other.
C30_DependenciesAreTheReachable ==
    last_op.op = "find_dependencies" =>
        /\ last_deps.dependencies = Reachable(last_deps.name)
        /\ Cardinality(last_deps.visited) <= Len(nodes)

\* a asked in a, b, c, d: itself (it calls itself), b and, through b, c
C30_Witness ==
    /\ Lowered(24)
    /\ last_op.op = "find_dependencies"
    /\ last_deps.name = "a"
    /\ last_deps.dependencies = {NameIdx("a"), NameIdx("b"), NameIdx("c")}
    /\ NameIdx("d") \in DOMAIN function_defs

====
